---- MODULE Spec2Model ----
(***************************************************************************)
(* Model of fenics.data.module.DataModule (src/fenics/data/module.py) and  *)
(* fenics.topology.base.create_nodes (src/fenics/topology/base.py).        *)
(*                                                                         *)
(* The process holds three process-wide random generators (random, numpy,  *)
(* torch), a global dataset, and DataModule objects.  Every method of      *)
(* DataModule is one action; an exception raised partway through a method  *)
(* is part of the action that models the method: the fields assigned       *)
(* before the raise keep their new values.                                 *)
(***************************************************************************)
EXTENDS Integers, Sequences, FiniteSets, TLC

VARIABLES dataset, py_random, np_random, torch_random, self, life, last

vars == <<dataset, py_random, np_random, torch_random, self, life, last>>

----------------------------------------------------------------------------
(* Bounds of the model *)

MaxNodes == 3

MaxTest == 3

MaxTrain == 1

MaxSeed == 0

MaxSetupCalls == 2

RngMod == 8

Objs == {"A", "B"}

NumNodesValues == -1..MaxNodes

\* alpha is a real; 0 stands for a non-positive and 1 for a positive value
AlphaValues == 0..1

BatchSizeValues == 0..1

SeedValues == 0..MaxSeed

NodeIds == -1..MaxNodes

Configs == [num_nodes : NumNodesValues, alpha : AlphaValues,
            batch_size : BatchSizeValues, random_seed : SeedValues]

ValidConfigs == {c \in Configs : c.num_nodes >= 1 /\ c.alpha > 0 /\ c.batch_size > 0}

\* the calls setup makes that can raise, in program order
Failures == {"none", "load_datasets_dirichlet", "print_class_distribution",
             "visualize_data_distribution", "build_topology",
             "visualize_and_save_topology"}

----------------------------------------------------------------------------
(* Python values *)

None == <<>>

Some(v) == <<v>>

IsNone(x) == x = <<>>

Val(x) == x[1]

Min(a, b) == IF a < b THEN a ELSE b

Range(f) == {f[k] : k \in DOMAIN f}

RECURSIVE SumOver(_, _)
SumOver(f, S) ==
    IF S = {} THEN 0
    ELSE LET k == CHOOSE x \in S : TRUE IN f[k] + SumOver(f, S \ {k})

\* range(n) as a 1-indexed sequence: <<0, ..., n-1>>, empty when n <= 0
PyRange(n) == [k \in 1..n |-> k - 1]

\* PySlice with the end position included
PySliceInclusive(x, start, end) ==
    LET lo == IF start < Len(x) THEN start ELSE Len(x)
        hi == IF end + 1 < Len(x) THEN end + 1 ELSE Len(x)
    IN  IF hi <= lo THEN <<>> ELSE SubSeq(x, lo + 1, hi)

\* x[start:end] for 0 <= start, 0 <= end (the only case the loop produces)
PySlice(x, start, end) ==
    LET lo == Min(start, Len(x))
        hi == Min(end, Len(x))
    IN  IF hi <= lo THEN <<>> ELSE SubSeq(x, lo + 1, hi)

\* division rounding up instead of down
CeilDiv(a, b) == IF b > 0 THEN (a + b - 1) \div b ELSE 0 - (a \div (0 - b))

\* a // b for a >= 0 and b # 0 (floor division)
FloorDiv(a, b) == IF b > 0 THEN a \div b ELSE 0 - ((a + (0 - b) - 1) \div (0 - b))

----------------------------------------------------------------------------
(* The process-wide generators.  The state after seed(s) and k draws is a   *)
(* function of (s, k); a linear congruential generator stands for it.      *)

Unseeded == 0 - 1

SeedState(seed) == seed % RngMod

Advance(s) == (5 * s + 3) % RngMod

\* random._randbelow(k), read from the state the draw leaves behind
Randbelow(s, k) == (s \div 2) % k

Swap(x, i, j) == [x EXCEPT ![i] = x[j], ![j] = x[i]]

\* random.shuffle: for i in reversed(range(1, len(x))): j = randbelow(i + 1);
\* x[i], x[j] = x[j], x[i]      (i is the 0-based position)
RECURSIVE ShuffleFrom(_, _, _)
ShuffleFrom(x, i, s) ==
    IF i < 1 THEN [list |-> x, state |-> s]
    ELSE LET s1 == Advance(s)
             j  == Randbelow(s1, i + 1)
         IN  ShuffleFrom(Swap(x, i + 1, j + 1), i - 1, s1)

Shuffle(x, s) == ShuffleFrom(x, Len(x) - 1, s)

----------------------------------------------------------------------------
(* fenics.topology.base *)

create_nodes(num_nodes) == PyRange(num_nodes)

----------------------------------------------------------------------------
(* fenics.data.handler.load_datasets_dirichlet: the Partitioner.  Every    *)
(* training index goes to exactly one node, the node being drawn from the  *)
(* numpy generator; each node's sequence is in index order.                *)

RECURSIVE DrawNodes(_, _, _)
DrawNodes(m, n, s) ==
    IF m = 0 THEN [owner |-> <<>>, state |-> s]
    ELSE LET r  == DrawNodes(m - 1, n, s)
             s1 == Advance(r.state)
         IN  [owner |-> Append(r.owner, Randbelow(s1, n)), state |-> s1]

RECURSIVE Filter(_, _, _)
Filter(owner, node, k) ==
    IF k > Len(owner) THEN <<>>
    ELSE IF owner[k] = node THEN <<k - 1>> \o Filter(owner, node, k + 1)
         ELSE Filter(owner, node, k + 1)

load_datasets_dirichlet(num_nodes, m, s) ==
    IF num_nodes <= 0 THEN [train_datasets |-> <<>>, state |-> s]
    ELSE LET r == DrawNodes(m, num_nodes, s)
         IN  [train_datasets |-> [k \in 1..num_nodes |-> Filter(r.owner, k - 1, 1)],
              state |-> r.state]

----------------------------------------------------------------------------
(* torch.utils.data.DataLoader(..., batch_size=b): the batch sampler       *)
(* rejects a batch size that is not positive.                              *)

DataLoaderOk(b) == b > 0

----------------------------------------------------------------------------
(* DataModule *)

Blank == [num_nodes |-> 0, alpha |-> 0, batch_size |-> 0, random_seed |-> 0,
          train_datasets |-> None, test_dataset |-> None, labels |-> None,
          nodes |-> None, G |-> None, node_datasets |-> None,
          test_loaders_per_node |-> None]

NoCall == [op |-> "none", obj |-> "A", arg |-> 0, outcome |-> "ok", value |-> None]

Init ==
    /\ dataset \in [train : 0..MaxTrain, test : 0..MaxTest]
    /\ py_random = Unseeded
    /\ np_random = Unseeded
    /\ torch_random = Unseeded
    /\ self = [o \in Objs |-> Blank]
    /\ life = [o \in Objs |-> [phase |-> "absent", calls |-> 0, completed |-> 0]]
    /\ last = NoCall

\* DataModule.__init__
Construct(o, cfg) ==
    /\ life[o].phase = "absent"
    /\ self' = [self EXCEPT ![o] = [Blank EXCEPT !.num_nodes = cfg.num_nodes,
                                                 !.alpha = cfg.alpha,
                                                 !.batch_size = cfg.batch_size,
                                                 !.random_seed = cfg.random_seed]]
    /\ torch_random' = SeedState(cfg.random_seed)
    /\ py_random' = SeedState(cfg.random_seed)
    /\ np_random' = SeedState(cfg.random_seed)
    /\ life' = [life EXCEPT ![o].phase = "uninit"]
    /\ last' = [op |-> "__init__", obj |-> o, arg |-> 0, outcome |-> "ok", value |-> None]
    /\ UNCHANGED dataset


DictSet(d, k, v) == [x \in (DOMAIN d) \cup {k} |-> IF x = k THEN v ELSE d[x]]

\* the loop of _create_test_loaders from iteration i on; a loader is
\* represented by the index sequence of its Subset (shuffle=False)
RECURSIVE BuildLoaders(_, _, _, _, _, _)
BuildLoaders(i, acc, test_indices, split_size, nodes, m) ==
    IF i >= m.num_nodes THEN [loaders |-> acc, ok |-> TRUE]
    ELSE LET start == i * split_size
             end   == IF i < m.num_nodes - 1 THEN (i + 1) * split_size
                      ELSE Len(test_indices)
             node_test_indices == PySlice(test_indices, start, end)
         IN  IF ~DataLoaderOk(m.batch_size)
             THEN [loaders |-> acc, ok |-> FALSE]
             ELSE BuildLoaders(i + 1, DictSet(acc, nodes[i + 1], node_test_indices),
                               test_indices, split_size, nodes, m)

\* DataModule._create_test_loaders on the object m with generator state s
create_test_loaders(m, s) ==
    LET sh == Shuffle(PyRange(Val(m.test_dataset)), s)
    IN  IF m.num_nodes = 0
        THEN [obj |-> m, state |-> sh.state, ok |-> FALSE, error |-> "ZeroDivisionError"]
        ELSE LET split_size == FloorDiv(Val(m.test_dataset), m.num_nodes)
                 b == BuildLoaders(0, <<>>, sh.list, split_size, Val(m.nodes), m)
             IN  [obj |-> [m EXCEPT !.test_loaders_per_node = Some(b.loaders)],
                  state |-> sh.state, ok |-> b.ok,
                  error |-> IF b.ok THEN "none" ELSE "ValueError"]

\* {node: self.train_datasets[node] for node in self.nodes}
MapDatasets(nodes, train_datasets) ==
    [node \in Range(nodes) |-> train_datasets[node + 1]]

\* the body of DataModule.setup; fail names the collaborator that raises
SetupResult(m, fail, py, np) ==
    IF fail = "load_datasets_dirichlet"
    THEN [obj |-> m, py |-> py, np |-> np, ok |-> FALSE, error |-> fail]
    ELSE
    LET ld == load_datasets_dirichlet(m.num_nodes, dataset.train, np)
        m1 == [m EXCEPT !.train_datasets = Some(ld.train_datasets),
                        !.test_dataset = Some(dataset.test),
                        !.labels = Some(dataset.train)]
    IN  IF fail \in {"print_class_distribution", "visualize_data_distribution"}
        THEN [obj |-> m1, py |-> py, np |-> ld.state, ok |-> FALSE, error |-> fail]
        ELSE
        LET m2 == [m1 EXCEPT !.nodes = Some(create_nodes(m.num_nodes))]
        IN  IF fail = "build_topology"
            THEN [obj |-> m2, py |-> py, np |-> ld.state, ok |-> FALSE, error |-> fail]
            ELSE
            LET m3 == [m2 EXCEPT !.G = Some(m.num_nodes)]
            IN  IF fail = "visualize_and_save_topology"
                THEN [obj |-> m3, py |-> py, np |-> ld.state, ok |-> FALSE, error |-> fail]
                ELSE
                LET m4 == [m3 EXCEPT !.node_datasets =
                              Some(MapDatasets(Val(m3.nodes), Val(m3.train_datasets)))]
                    t  == create_test_loaders(m4, py)
                IN  [obj |-> t.obj, py |-> t.state, np |-> ld.state,
                     ok |-> t.ok, error |-> t.error]

\* DataModule.setup
Setup(o, fail) ==
    /\ life[o].phase # "absent"
    /\ life[o].calls < MaxSetupCalls
    /\ LET r == SetupResult(self[o], fail, py_random, np_random)
       IN  /\ self' = [self EXCEPT ![o] = r.obj]
           /\ py_random' = r.py
           /\ np_random' = r.np
           /\ life' = [life EXCEPT ![o] =
                         [phase |-> IF r.ok THEN "ready" ELSE "aborted",
                          calls |-> @.calls + 1,
                          completed |-> IF r.ok THEN @.completed + 1 ELSE @.completed]]
           /\ last' = [op |-> "setup", obj |-> o, arg |-> 0,
                       outcome |-> IF r.ok THEN "ok" ELSE "error",
                       value |-> Some(r.error)]
    /\ UNCHANGED <<dataset, torch_random>>

\* get_train_loader indexing the datasets as a list (negative positions wrap)
GetTrainLoaderList(o, node_id) ==
    /\ life[o].phase # "absent"
    /\ LET m == self[o]
           n == IF IsNone(m.node_datasets) THEN 0 ELSE Cardinality(DOMAIN Val(m.node_datasets))
           r == IF IsNone(m.node_datasets) THEN [outcome |-> "error", value |-> Some("TypeError")]
                ELSE IF node_id >= n \/ node_id < 0 - n
                     THEN [outcome |-> "error", value |-> Some("IndexError")]
                     ELSE IF ~DataLoaderOk(m.batch_size)
                          THEN [outcome |-> "error", value |-> Some("ValueError")]
                          ELSE [outcome |-> "ok",
                                value |-> Some(Val(m.node_datasets)[IF node_id < 0 THEN node_id + n
                                                                    ELSE node_id])]
       IN  last' = [op |-> "get_train_loader", obj |-> o, arg |-> node_id,
                    outcome |-> r.outcome, value |-> r.value]
    /\ UNCHANGED <<dataset, py_random, np_random, torch_random, self, life>>

\* DataModule.get_train_loader: a fresh loader over node_datasets[node_id];
\* the value is the dataset the loader draws from
GetTrainLoader(o, node_id) ==
    /\ life[o].phase # "absent"
    /\ LET m == self[o]
           r == IF IsNone(m.node_datasets) THEN [outcome |-> "error", value |-> Some("TypeError")]
                ELSE IF node_id \notin DOMAIN Val(m.node_datasets)
                     THEN [outcome |-> "error", value |-> Some("KeyError")]
                     ELSE IF ~DataLoaderOk(m.batch_size)
                          THEN [outcome |-> "error", value |-> Some("ValueError")]
                          ELSE [outcome |-> "ok", value |-> Some(Val(m.node_datasets)[node_id])]
       IN  last' = [op |-> "get_train_loader", obj |-> o, arg |-> node_id,
                    outcome |-> r.outcome, value |-> r.value]
    /\ UNCHANGED <<dataset, py_random, np_random, torch_random, self, life>>

\* get_test_loader handing the loader over and dropping it from the map
GetTestLoaderPop(o, node_id) ==
    /\ life[o].phase # "absent"
    /\ ~IsNone(self[o].test_loaders_per_node)
    /\ node_id \in DOMAIN Val(self[o].test_loaders_per_node)
    /\ LET d == Val(self[o].test_loaders_per_node)
       IN  /\ last' = [op |-> "get_test_loader", obj |-> o, arg |-> node_id,
                       outcome |-> "ok", value |-> Some(d[node_id])]
           /\ self' = [self EXCEPT ![o].test_loaders_per_node =
                         Some([x \in (DOMAIN d) \ {node_id} |-> d[x]])]
    /\ UNCHANGED <<dataset, py_random, np_random, torch_random, life>>

\* DataModule.get_test_loader
GetTestLoader(o, node_id) ==
    /\ life[o].phase # "absent"
    /\ LET m == self[o]
           r == IF IsNone(m.test_loaders_per_node)
                THEN [outcome |-> "error", value |-> Some("TypeError")]
                ELSE IF node_id \notin DOMAIN Val(m.test_loaders_per_node)
                     THEN [outcome |-> "error", value |-> Some("KeyError")]
                     ELSE [outcome |-> "ok", value |-> Some(Val(m.test_loaders_per_node)[node_id])]
       IN  last' = [op |-> "get_test_loader", obj |-> o, arg |-> node_id,
                    outcome |-> r.outcome, value |-> r.value]
    /\ UNCHANGED <<dataset, py_random, np_random, torch_random, self, life>>

\* DataSizes counting positions from 0 to len - 1 as len - 1
DataSizesOffByOne(node_datasets) ==
    [node \in DOMAIN node_datasets |->
        IF Len(node_datasets[node]) = 0 THEN 0 ELSE Len(node_datasets[node]) - 1]

\* {node: len(dataset) for node, dataset in node_datasets.items()}
DataSizes(node_datasets) == [node \in DOMAIN node_datasets |-> Len(node_datasets[node])]

\* DataModule.get_data_sizes
GetDataSizes(o) ==
    /\ life[o].phase # "absent"
    /\ LET m == self[o]
           r == IF IsNone(m.node_datasets)
                THEN [outcome |-> "error", value |-> Some("AttributeError")]
                ELSE [outcome |-> "ok", value |-> Some(DataSizes(Val(m.node_datasets)))]
       IN  last' = [op |-> "get_data_sizes", obj |-> o, arg |-> 0,
                    outcome |-> r.outcome, value |-> r.value]
    /\ UNCHANGED <<dataset, py_random, np_random, torch_random, self, life>>

\* fenics.utils.calculate_selection_probabilities: weights proportional to
\* the sizes; a weight is the pair <<size, total>>
SelectionProbabilities(node_datasets) ==
    LET sizes == DataSizes(node_datasets)
        total == SumOver(sizes, DOMAIN sizes)
    IN  [node \in DOMAIN sizes |-> <<sizes[node], total>>]

\* DataModule.calculate_selection_probabilities
CalculateSelectionProbabilities(o) ==
    /\ life[o].phase # "absent"
    /\ LET m == self[o]
           r == IF IsNone(m.node_datasets)
                THEN [outcome |-> "error", value |-> Some("AttributeError")]
                ELSE [outcome |-> "ok", value |-> Some(SelectionProbabilities(Val(m.node_datasets)))]
       IN  last' = [op |-> "calculate_selection_probabilities", obj |-> o, arg |-> 0,
                    outcome |-> r.outcome, value |-> r.value]
    /\ UNCHANGED <<dataset, py_random, np_random, torch_random, self, life>>

----------------------------------------------------------------------------
(* One DataModule object, every configuration, every collaborator failure *)

Next ==
    \/ \E cfg \in Configs : Construct("A", cfg)
    \/ \E fail \in Failures : Setup("A", fail)
    \/ \E node_id \in NodeIds : GetTrainLoader("A", node_id)
    \/ \E node_id \in NodeIds : GetTestLoader("A", node_id)
    \/ GetDataSizes("A")
    \/ CalculateSelectionProbabilities("A")

Spec == Init /\ [][Next]_vars

(* Two DataModule objects in one process, valid configurations, no         *)
(* collaborator failure: the interleavings of construction and setup       *)

NextPair ==
    \/ \E o \in Objs : \E cfg \in ValidConfigs : Construct(o, cfg)
    \/ \E o \in Objs : Setup(o, "none")

SpecPair == Init /\ [][NextPair]_vars


----------------------------------------------------------------------------
(* Properties *)

Registry(o) == 0..(self[o].num_nodes - 1)

Ready(o) == life[o].phase = "ready"

Accessors == {"get_train_loader", "get_test_loader", "get_data_sizes",
              "calculate_selection_probabilities"}

\* the (node, position) pairs of a map of sequences that hold the index j
Holders(d, j) == {p \in UNION {{<<node, k>> : k \in DOMAIN d[node]} : node \in DOMAIN d} :
                    d[p[1]][p[2]] = j}

IsPartitionOf(d, size) ==
    /\ \A j \in 0..(size - 1) : Cardinality(Holders(d, j)) = 1
    /\ \A node \in DOMAIN d : \A k \in DOMAIN d[node] : d[node][k] \in 0..(size - 1)

\* C1: after a completed setup with num_nodes >= 1, the per-node test index
\* sequences are keyed by the nodes 0..num_nodes-1, and every test index in
\* [0, N) occurs in exactly one sequence at exactly one position, and nothing
\* else occurs (also when N < num_nodes).
C1_TestSplitPartition ==
    \A o \in Objs :
        (Ready(o) /\ self[o].num_nodes >= 1) =>
            /\ DOMAIN Val(self[o].test_loaders_per_node) = Registry(o)
            /\ IsPartitionOf(Val(self[o].test_loaders_per_node), dataset.test)

C1_Witness ==
    /\ Ready("A")
    /\ self["A"].num_nodes = 3
    /\ dataset.test = 2
    /\ Len(Val(self["A"].test_loaders_per_node)[2]) = 2

\* C2: a setup that completes with num_nodes >= 1 gives node i < num_nodes-1
\* the positions [i*base, (i+1)*base) of the shuffled index list and the last
\* node the positions from (num_nodes-1)*base to N, base = N div num_nodes;
\* the last node holds the largest split and exceeds any other by at most
\* num_nodes - 1.
C2_SplitSizes ==
    [][\A o \in Objs :
        (life'[o].calls = life[o].calls + 1 /\ life'[o].phase = "ready"
            /\ self[o].num_nodes >= 1) =>
        LET n    == self[o].num_nodes
            N    == dataset.test
            base == N \div n
            sh   == Shuffle(PyRange(N), py_random).list
            tl   == Val(self'[o].test_loaders_per_node)
            size(i) == IF i < n - 1 THEN base ELSE N - (n - 1) * base
        IN  /\ \A i \in 0..(n - 1) : tl[i] = [k \in 1..size(i) |-> sh[i * base + k]]
            /\ \A i \in 0..(n - 1) : /\ Len(tl[n - 1]) >= Len(tl[i])
                                     /\ Len(tl[n - 1]) - Len(tl[i]) <= n - 1]_vars

C2_Witness ==
    /\ Ready("A")
    /\ self["A"].num_nodes = 2
    /\ dataset.test = 3
    /\ Len(Val(self["A"].test_loaders_per_node)[1]) = 2
    /\ Len(Val(self["A"].test_loaders_per_node)[0]) = 1

SameConfiguration(a, b) ==
    /\ self[a].num_nodes = self[b].num_nodes
    /\ self[a].alpha = self[b].alpha
    /\ self[a].batch_size = self[b].batch_size
    /\ self[a].random_seed = self[b].random_seed

\* C3: two objects built with the same configuration and each taken through
\* setup once hold the same Test Split Map and the same Node Assignment Map,
\* whatever the order of the two constructions and the two setup calls.
C3_Determinism ==
    ( /\ \A o \in Objs : Ready(o) /\ life[o].calls = 1
      /\ SameConfiguration("A", "B") ) =>
        /\ self["A"].test_loaders_per_node = self["B"].test_loaders_per_node
        /\ self["A"].node_datasets = self["B"].node_datasets

ValidConfiguration(o) ==
    self[o].num_nodes > 0 /\ self[o].alpha > 0 /\ self[o].batch_size > 0

\* C4: a setup call on a validly configured object that is already Ready,
\* when it completes,
\* leaves the Test Split Map and the Node Assignment Map as the first call
\* left them.
C4_SetupIdempotent ==
    [][\A o \in Objs :
        (Ready(o) /\ ValidConfiguration(o)
            /\ life'[o].calls = life[o].calls + 1 /\ life'[o].phase = "ready") =>
            /\ self'[o].test_loaders_per_node = self[o].test_loaders_per_node
            /\ self'[o].node_datasets = self[o].node_datasets]_vars

\* C5: an accessor called on an object on which no setup call has completed
\* fails with an error; it never returns a result.
C5_UninitializedAccessFails ==
    (last.op \in Accessors /\ life[last.obj].completed = 0) => last.outcome = "error"

\* C6: no object exists with num_nodes <= 0, alpha <= 0 or batch_size <= 0:
\* construction fails, so no such object is Uninitialized or later, and no
\* dataset is loaded for it.
C6_ConfigurationRejected ==
    \A o \in Objs : life[o].phase # "absent" => ValidConfiguration(o)

Plotting == {"print_class_distribution", "visualize_data_distribution",
             "visualize_and_save_topology"}

\* C7: a setup call of a validly configured object in which a visualization
\* or logging collaborator raised still builds node_datasets and the test
\* loaders, and the object is Ready.
C7_PlottingFailureTolerated ==
    (last.op = "setup" /\ Val(last.value) \in Plotting /\ ValidConfiguration(last.obj)) =>
        /\ Ready(last.obj)
        /\ ~IsNone(self[last.obj].node_datasets)
        /\ ~IsNone(self[last.obj].test_loaders_per_node)

C9_DataSizes ==
    ( /\ last.op = "get_data_sizes"
      /\ Ready(last.obj)
      /\ Len(Val(self[last.obj].train_datasets)) = self[last.obj].num_nodes
      /\ IsPartitionOf(Val(self[last.obj].train_datasets), dataset.train) ) =>
        /\ last.outcome = "ok"
        /\ DOMAIN Val(last.value) = Registry(last.obj)
        /\ \A node \in Registry(last.obj) :
              Val(last.value)[node] = Len(Val(self[last.obj].train_datasets)[node + 1])
        /\ SumOver(Val(last.value), Registry(last.obj)) = dataset.train

C9_Witness ==
    /\ last.op = "get_data_sizes"
    /\ Ready("A")
    /\ self["A"].num_nodes = 2
    /\ dataset.train >= 1
    /\ last.outcome = "ok"
    /\ Val(last.value)[0] + Val(last.value)[1] = dataset.train

\* C10: an accessor call on a Ready object changes neither the object (node
\* list, Node Assignment Map, Test Split Map) nor its life cycle;
\* get_test_loader(n) yields the sequence the Test Split Map holds for n, and
\* get_train_loader(n) covers the sequence the Node Assignment Map holds for n.
C10_AccessorsReadOnly ==
    [][(last'.op \in Accessors /\ Ready(last'.obj)) =>
        /\ self' = self
        /\ life' = life
        /\ (last'.op = "get_test_loader" /\ last'.outcome = "ok") =>
              Val(last'.value) = Val(self[last'.obj].test_loaders_per_node)[last'.arg]
        /\ (last'.op = "get_train_loader" /\ last'.outcome = "ok") =>
              Val(last'.value) = Val(self[last'.obj].node_datasets)[last'.arg]]_vars

C10_Witness ==
    /\ last.op = "get_test_loader"
    /\ Ready("A")
    /\ last.outcome = "ok"
    /\ Len(Val(last.value)) >= 2

====
